---- MODULE Spec2Model ----
(***************************************************************************)
(* Typefree: dictation session orchestrator (useAudioRecording.js), the    *)
(* native paste routine paste_text (documented in the paste write-up that  *)
(* follows soundFeedback.js) and the clipboard-history callers of the      *)
(* clipboard (ClipboardSettings.tsx).                                      *)
(***************************************************************************)
EXTENDS Integers, FiniteSets, Sequences, TLC

(***************************************************************************)
(* Bounds                                                                  *)
(***************************************************************************)
\* number of inputs the environment gives: hotkey and backend events, clicks,
\* mounts and unmounts of the hook
MaxEvents == 5
\* hotkey events and clicks in the specification that checks progress
MaxPresses == 4

(***************************************************************************)
(* Values                                                                  *)
(***************************************************************************)
\* tokens: every mount issues a fresh one
Tokens == 1..(MaxEvents + 1)
NoToken == 0
\* callers of pasteText; each has at most one paste_text command in flight
Slots == {"safePaste", "handlePaste"}

\* transcription results
Transcripts == {"hello world", "draft text"}
\* clipboard contents: text, an image, or nothing
ImageContent == "<image>"
EmptyContent == "<empty>"
TextContents == Transcripts \cup {"previous"}
ClipContents == TextContents \cup {ImageContent, EmptyContent}
\* Option::None of read_text().ok()
NoSnapshot == "<none>"

Contexts == {"main", "worker"}
PasteResults == {"none", "Ok", "PermissionDenied", "ClipboardWriteFailed", "SynthesisFailed"}

VARIABLES
    clipboard,      \* the system clipboard
    pastes,         \* paste_text invocations, one record per slot
    synthCtxs,      \* execution contexts on which input synthesis has run
    pasted,         \* what the target application received from the paste keystroke
    observed,       \* clipboard content observed when the latest paste began
    activeToken,    \* window.__typefreeActiveAudioManagerToken
    issued,         \* number of tokens issued so far
    mounted,        \* the useAudioRecording effect is mounted
    ref,            \* audioManagerRef.current: the token its AudioManager was made under
    reg,            \* per token: state of the listeners registered by that effect run
    wantUnlisten,   \* tokens whose cleanup has asked for unlisten
    mgr,            \* per token: the AudioManager made by that effect run
    ui,             \* React state of the hook: isRecording, isProcessing
    transcript,     \* React state of the hook: transcript
    sounds,         \* audible cues played: start, stop, complete
    toasts,         \* error toasts shown, per kind of error
    bcast,          \* events published by the session state machine
    onToggleCalls,  \* calls of the onToggle option callback
    windowShown,    \* showWindow / hideWindow
    timers,         \* pending 500 ms paste timers
    saved,          \* saveTranscription calls
    inflight,       \* the event being delivered and the listeners still to receive it
    events,         \* events delivered by the environment so far
    activationMode, \* localStorage activationMode: "tap" or "push"
    unhandled,      \* a promise rejection has escaped every handler
    overlayEffect,  \* RecordingOverlay: per effect run, its async registration and closure
    overlayMounted, \* RecordingOverlay: the effect run that is mounted, 0 when none
    overlay,        \* RecordingOverlay: React state of the mounted overlay (state, visible)
    overlayLast,    \* the last event handled by the mounted overlay
    overlayEvents,  \* overlay events delivered so far
    hotkeyRegistered,       \* useHotkey: the module-level flag
    hotkeyHook,             \* useHotkey: per instance, its hasRegistered ref and where it is
    updateHotkeyAvailable,  \* window.electronAPI?.updateHotkey is there
    dictationKey,           \* localStorage dictationKey, "" when absent
    hotkeyFallback,         \* the build of useHotkey with the F1 fallback is the one running
    lsEnabled,      \* localStorage clipboard.enabled: "null", "true" or "false"
    lsMaxItems,     \* localStorage clipboard.maxItems, as the raw string; "null" when absent
    lsHistory,      \* localStorage clipboard.history: the ids of the stored items, newest first
    settings,       \* ClipboardSettings: mounted, and its React state enabled, maxItems, history
    clipListeners,  \* ClipboardSettings: the clipboard-update listeners of its effect runs
    storageEvents,  \* storage events on their way to the window of ClipboardSettings
    clipUpdate,     \* the clipboard-update event being delivered
    clipEvents      \* clipboard updates and user actions on the settings so far

pasteVars == <<clipboard, pastes, synthCtxs, pasted, observed>>
\* state of the overlay window
overlayVars == <<overlayEffect, overlayMounted, overlay, overlayLast, overlayEvents>>
\* state of the hotkey registration
hotkeyVars == <<hotkeyRegistered, hotkeyHook, updateHotkeyAvailable, dictationKey, hotkeyFallback>>
\* state of the components next to the dictation session
\* state of the clipboard history
historyVars == <<lsEnabled, lsMaxItems, lsHistory, settings, clipListeners, storageEvents,
                 clipUpdate, clipEvents>>
sideVars == <<overlayVars, hotkeyVars, historyVars>>
\* state of the useAudioRecording hook and of its AudioManager
hookVars == <<activeToken, issued, mounted, ref, reg, wantUnlisten, mgr, ui, transcript, sounds, toasts,
              bcast, onToggleCalls, windowShown, timers, saved, inflight, events,
              activationMode>>
sessVars == <<hookVars, sideVars>>
\* everything but the overlay, but the hotkey registration, but the clipboard history
notOverlayVars == <<pasteVars, hookVars, unhandled, hotkeyVars, historyVars>>
notHotkeyVars == <<pasteVars, hookVars, unhandled, overlayVars, historyVars>>
notHistoryVars == <<pasteVars, hookVars, unhandled, overlayVars, hotkeyVars>>

FreeSlot == [pc |-> "free", text |-> "", prev |-> NoSnapshot, ctx |-> "main",
             tok |-> NoToken, synth |-> FALSE, result |-> "none"]

(***************************************************************************)
(* paste_text (soundFeedback.js 322-334) and its steps                     *)
(***************************************************************************)
\* app.clipboard().read_text().ok(): only text can be read; anything else is None
read_text(c) == IF c \in TextContents THEN c ELSE NoSnapshot

\* restore(prev): writes the snapshot back when there is one
restore(prev, c) == IF prev # NoSnapshot THEN prev ELSE c

\* the routine before the rework: simulate_paste() called where the command runs
simulate_paste_inline(ctx) == ctx

\* app.run_on_main_thread(...): synthesis is marshalled to the main thread,
\* whatever context the command runs on
run_enigo_on_main_thread(ctx) == "main"

\* window.electronAPI.pasteText(text) -> invoke("paste_text", { text })
pasteText(s, tok, text, ctx) ==
    /\ pastes[s].pc = "free"
    /\ pastes' = [pastes EXCEPT ![s] = [pc |-> "perm", text |-> text, prev |-> NoSnapshot,
                                        ctx |-> ctx, tok |-> tok, synth |-> FALSE,
                                        result |-> "none"]]
    /\ observed' = clipboard
    /\ UNCHANGED <<clipboard, synthCtxs, pasted>>

\* a permission check that returns the error and leaves the clipboard as it was
ensure_accessibility_permission_error_only(s, granted) ==
    /\ pastes[s].pc = "perm"
    /\ pastes' = IF granted
                 THEN [pastes EXCEPT ![s].pc = "read"]
                 ELSE [pastes EXCEPT ![s].pc = "done", ![s].result = "PermissionDenied"]
    /\ UNCHANGED <<clipboard, synthCtxs, pasted, observed>>

\* ensure_accessibility_permission()?: AXIsProcessTrusted() is asked on every paste;
\* without the permission the command returns the error at once and the
\* transcript is left on the clipboard ("Text is copied to clipboard")
ensure_accessibility_permission(s, granted) ==
    /\ pastes[s].pc = "perm"
    /\ IF granted
       THEN /\ pastes' = [pastes EXCEPT ![s].pc = "read"]
            /\ UNCHANGED clipboard
       ELSE /\ clipboard' = pastes[s].text
            /\ pastes' = [pastes EXCEPT ![s].pc = "done", ![s].result = "PermissionDenied"]
    /\ UNCHANGED <<synthCtxs, pasted, observed>>

\* let prev = app.clipboard().read_text().ok();
paste_text_snapshot(s) ==
    /\ pastes[s].pc = "read"
    /\ pastes' = [pastes EXCEPT ![s].pc = "write", ![s].prev = read_text(clipboard)]
    /\ UNCHANGED <<clipboard, synthCtxs, pasted, observed>>

\* a write step that ignores a failed write and goes on to the keystroke
paste_text_write_best_effort(s, ok) ==
    /\ pastes[s].pc = "write"
    /\ clipboard' = IF ok THEN pastes[s].text ELSE clipboard
    /\ pastes' = [pastes EXCEPT ![s].pc = "synth"]
    /\ UNCHANGED <<synthCtxs, pasted, observed>>

\* app.clipboard().write_text(text)?; sleep(paste_delay);
paste_text_write(s, ok) ==
    /\ pastes[s].pc = "write"
    /\ IF ok
       THEN /\ clipboard' = pastes[s].text
            /\ pastes' = [pastes EXCEPT ![s].pc = "synth"]
       ELSE /\ UNCHANGED clipboard
            /\ pastes' = [pastes EXCEPT ![s].pc = "done", ![s].result = "ClipboardWriteFailed"]
    /\ UNCHANGED <<synthCtxs, pasted, observed>>

\* a synthesis step that drops the keystroke's error and carries on to Ok
paste_text_synth_ignoring_error(s, ok) ==
    /\ pastes[s].pc = "synth"
    /\ synthCtxs' = synthCtxs \cup {run_enigo_on_main_thread(pastes[s].ctx)}
    /\ pasted' = IF ok THEN clipboard ELSE pasted
    /\ pastes' = [pastes EXCEPT ![s].pc = "restore", ![s].synth = TRUE]
    /\ UNCHANGED <<clipboard, observed>>

\* a synthesis step that restores the snapshot whether or not the keystroke went out
paste_text_synth_always_restore(s, ok) ==
    /\ pastes[s].pc = "synth"
    /\ synthCtxs' = synthCtxs \cup {run_enigo_on_main_thread(pastes[s].ctx)}
    /\ IF ok
       THEN /\ pasted' = clipboard
            /\ pastes' = [pastes EXCEPT ![s].pc = "restore", ![s].synth = TRUE]
            /\ UNCHANGED clipboard
       ELSE /\ UNCHANGED pasted
            /\ clipboard' = restore(pastes[s].prev, clipboard)
            /\ pastes' = [pastes EXCEPT ![s].pc = "done", ![s].synth = TRUE,
                                        ![s].result = "SynthesisFailed"]
    /\ UNCHANGED observed

\* run_enigo_on_main_thread(app)?; sleep(restore_delay);
paste_text_synth(s, ok) ==
    /\ pastes[s].pc = "synth"
    /\ synthCtxs' = synthCtxs \cup {run_enigo_on_main_thread(pastes[s].ctx)}
    /\ IF ok
       THEN /\ pasted' = clipboard
            /\ pastes' = [pastes EXCEPT ![s].pc = "restore", ![s].synth = TRUE]
       ELSE /\ UNCHANGED pasted
            /\ pastes' = [pastes EXCEPT ![s].pc = "done", ![s].synth = TRUE,
                                        ![s].result = "SynthesisFailed"]
    /\ UNCHANGED <<clipboard, observed>>

\* restore(prev); Ok(())
paste_text_restore(s) ==
    /\ pastes[s].pc = "restore"
    /\ clipboard' = restore(pastes[s].prev, clipboard)
    /\ pastes' = [pastes EXCEPT ![s].pc = "done", ![s].result = "Ok"]
    /\ UNCHANGED <<synthCtxs, pasted, observed>>

\* one step of the paste_text command running in slot s
paste_text(s) ==
    \/ \E granted \in BOOLEAN : ensure_accessibility_permission(s, granted)
    \/ paste_text_snapshot(s)
    \/ \E ok \in BOOLEAN : paste_text_write(s, ok)
    \/ \E ok \in BOOLEAN : paste_text_synth(s, ok)
    \/ paste_text_restore(s)

\* the paste_text command of slot s returns to its caller
PasteReturn(s) ==
    /\ pastes[s].pc = "done"
    /\ pastes' = [pastes EXCEPT ![s] = FreeSlot]
    /\ UNCHANGED <<clipboard, synthCtxs, pasted, observed>>

(***************************************************************************)
(* Clipboard history (ClipboardSettings.tsx)                               *)
(***************************************************************************)
HistoryItems == {[type |-> "text", content |-> "previous"],
                 [type |-> "image", content |-> ImageContent]}

\* handleCopy: writeClipboardImage / writeClipboard of the item, no paste_text involved
handleCopy(item) ==
    /\ clipboard' = IF item.type = "image" THEN ImageContent ELSE item.content
    /\ UNCHANGED <<pastes, synthCtxs, pasted, observed>>

\* handlePaste: hide the window, wait 80 ms, then pasteText(item.content)
\* (text items; pasteImage goes to another command)
handlePaste(item, ctx) ==
    /\ item.type = "text"
    /\ pasteText("handlePaste", NoToken, item.content, ctx)

\* how the promise returned by pasteText settles: the wrapper returns
\* invoke("paste_text") without awaiting it, so its try/catch never sees the
\* command's Err and the promise rejects with it
pasteTextSettles(s) ==
    IF pastes[s].result = "Ok" THEN "resolved" ELSE "rejected"

\* handlePaste's `await pasteText(item.content)` settles: there is no catch in
\* handlePaste nor at its onClick call sites, so a rejection goes unhandled
handlePasteSettles ==
    /\ PasteReturn("handlePaste")
    /\ unhandled' = (unhandled \/ pasteTextSettles("handlePaste") = "rejected")

\* AudioManager.safePaste(text) reaching pasteText(text)
safePaste(tok, text, ctx) ==
    pasteText("safePaste", tok, text, ctx)

(***************************************************************************)
(* Session generation guard (useAudioRecording.js 5-21)                    *)
(***************************************************************************)
\* window[ACTIVE_AUDIO_MANAGER_TOKEN_KEY] === token
isActiveToken(token) == activeToken = token

ErrorKinds == {"CaptureFailed", "TranscriptionFailed", "PermissionDenied",
               "ClipboardWriteFailed", "SynthesisFailed", "Backend"}
BroadcastKinds == {"RecordingChanged(true)", "RecordingChanged(false)",
                   "ProcessingChanged(true)", "ProcessingChanged(false)",
                   "Result", "Error"}

\* state written by the handlers and callbacks of one effect run
coreVars == <<mgr, ui, transcript, sounds, toasts, bcast, windowShown, timers, saved>>
\* state of the mount / unmount life cycle
lifeVars == <<activeToken, issued, mounted, ref, reg, wantUnlisten, activationMode, unhandled,
              sideVars>>

(***************************************************************************)
(* AudioManager: the capture / transcription state machine behind          *)
(* audioManagerRef.current (spec section 4.1)                              *)
(***************************************************************************)
\* st: where the manager is; stopReq: a stop was asked for while starting;
\* captures: capture streams asked for and not yet released
NewManager == [st |-> "idle", stopReq |-> FALSE, captures |-> 0]

\* audioManagerRef.current.getState()
getState(m) == [isRecording |-> mgr[m].st = "recording",
                isProcessing |-> mgr[m].st = "processing",
                isStarting |-> mgr[m].st = "starting"]

\* the session state machine publishes the events ks through the callbacks
\* registered under token; a callback of a replaced token drops them
publish(token, ks) ==
    bcast' = [k \in BroadcastKinds |->
                IF k \in ks /\ isActiveToken(token) THEN bcast[k] + 1 ELSE bcast[k]]

\* an onStateChange callback that forgets setIsProcessing
onStateChange_recording_only(token, rec, proc) ==
    ui' = IF isActiveToken(token) THEN [ui EXCEPT !.isRecording = rec] ELSE ui

\* setCallbacks.onStateChange (66-70)
onStateChange(token, rec, proc) ==
    ui' = IF isActiveToken(token) THEN [isRecording |-> rec, isProcessing |-> proc] ELSE ui

\* an onError callback that shows the toast without looking at the token
onError_without_token_check(token, kind) ==
    toasts' = [toasts EXCEPT ![kind] = @ + 1]

\* setCallbacks.onError (71-78)
onError(token, kind) ==
    toasts' = IF isActiveToken(token) THEN [toasts EXCEPT ![kind] = @ + 1] ELSE toasts

\* setCallbacks.onTranscriptionComplete (79-101), result.success: the transcript is
\* stored, the complete cue plays, the window hides and the paste is deferred 500 ms
onTranscriptionComplete(token, text) ==
    IF isActiveToken(token)
    THEN /\ transcript' = text
         /\ sounds' = [sounds EXCEPT !.complete = @ + 1]
         /\ windowShown' = FALSE
         /\ timers' = timers \cup {[tok |-> token, text |-> text]}
    ELSE UNCHANGED <<transcript, sounds, windowShown, timers>>

\* Idle --Toggle/PushStart--> Starting: a capture is asked of the device. The
\* debounce is the caller's guard (4.1); the manager opens what it is asked for
startRecording(m) ==
    mgr' = [mgr EXCEPT ![m] = [st |-> "starting", stopReq |-> FALSE,
                               captures |-> @.captures + 1]]

\* Recording --Toggle/PushStop--> Transcribing: RecordingChanged(false), ProcessingChanged(true)
stopRecording(m) ==
    IF mgr[m].st = "recording"
    THEN /\ mgr' = [mgr EXCEPT ![m] = [st |-> "processing", stopReq |-> FALSE, captures |-> 0]]
         /\ onStateChange(m, FALSE, TRUE)
         /\ publish(m, {"RecordingChanged(false)", "ProcessingChanged(true)"})
    ELSE UNCHANGED <<mgr, ui, bcast>>

\* requestStop?.() || stopRecording(): a stop asked for while the capture is still
\* starting is remembered and carried out once the capture device is ready
requestStop(m) ==
    IF mgr[m].st = "starting"
    THEN /\ mgr' = [mgr EXCEPT ![m].stopReq = TRUE]
         /\ UNCHANGED <<ui, bcast>>
    ELSE stopRecording(m)

\* Starting --capture-device-ready--> Recording: RecordingChanged(true)
CaptureReady(m) ==
    /\ mgr[m].st = "starting"
    /\ mgr' = [mgr EXCEPT ![m].st = "recording"]
    /\ onStateChange(m, TRUE, FALSE)
    /\ publish(m, {"RecordingChanged(true)"})
    /\ UNCHANGED <<transcript, sounds, toasts, windowShown, timers, saved>>

\* the stop remembered during Starting is carried out
DeferredStop(m) ==
    /\ mgr[m].st = "recording"
    /\ mgr[m].stopReq
    /\ stopRecording(m)
    /\ UNCHANGED <<transcript, sounds, toasts, windowShown, timers, saved>>

\* CaptureFailed: reported, the session returns to Idle
CaptureFailed(m) ==
    /\ mgr[m].st = "starting"
    /\ mgr' = [mgr EXCEPT ![m] = NewManager]
    /\ onError(m, "CaptureFailed")
    /\ publish(m, {"Error"})
    /\ UNCHANGED <<ui, transcript, sounds, windowShown, timers, saved>>

\* Transcribing --success(text)--> Pasting: ProcessingChanged(false), then the
\* onTranscriptionComplete callback
TranscriptionResolved(m, text) ==
    /\ mgr[m].st = "processing"
    /\ mgr' = [mgr EXCEPT ![m].st = "idle"]
    /\ onStateChange(m, FALSE, FALSE)
    /\ publish(m, {"ProcessingChanged(false)"})
    /\ onTranscriptionComplete(m, text)
    /\ UNCHANGED <<toasts, saved>>

\* Transcribing --failure(reason)--> Error
TranscriptionFailed(m) ==
    /\ mgr[m].st = "processing"
    /\ mgr' = [mgr EXCEPT ![m].st = "error"]
    /\ onStateChange(m, FALSE, FALSE)
    /\ publish(m, {"ProcessingChanged(false)"})
    /\ UNCHANGED <<transcript, sounds, toasts, windowShown, timers, saved>>

\* Error --reported--> Idle: emits Error(reason)
ErrorReported(m) ==
    /\ mgr[m].st = "error"
    /\ mgr' = [mgr EXCEPT ![m].st = "idle"]
    /\ onError(m, "TranscriptionFailed")
    /\ publish(m, {"Error"})
    /\ UNCHANGED <<ui, transcript, sounds, windowShown, timers, saved>>

\* AudioManager.cleanup(): the capture is released; a transcription already
\* handed to the service runs to its end
cleanup(m) ==
    mgr' = [mgr EXCEPT ![m] = IF @.st \in {"starting", "recording"} THEN NewManager ELSE @]

\* Phase of the session run under token g (spec section 3): the manager's state,
\* and Pasting from the transcription callback until safePaste has resolved
Phase(g) ==
    CASE mgr[g].st = "starting" -> "Starting"
      [] mgr[g].st = "recording" -> "Recording"
      [] mgr[g].st = "processing" -> "Transcribing"
      [] mgr[g].st = "error" -> "Error"
      [] OTHER -> IF \/ \E t \in timers : t.tok = g
                     \/ pastes["safePaste"].pc # "free" /\ pastes["safePaste"].tok = g
                  THEN "Pasting"
                  ELSE "Idle"

(***************************************************************************)
(* Hotkey handlers (useAudioRecording.js 104-142, 289-306)                 *)
(***************************************************************************)
\* the start branch shared by handleToggle, handleStart and toggleListening:
\* showWindow, start cue, startRecording
StartBranch ==
    /\ windowShown' = TRUE
    /\ sounds' = [sounds EXCEPT !.start = @ + 1]
    /\ startRecording(ref)
    /\ UNCHANGED <<ui, transcript, toasts, bcast, timers, saved>>

\* the stop branch: stop cue, requestStop?.() || stopRecording()
StopBranch ==
    /\ sounds' = [sounds EXCEPT !.stop = @ + 1]
    /\ requestStop(ref)
    /\ UNCHANGED <<transcript, toasts, windowShown, timers, saved>>

\* handleToggle without the generation guard: every registered listener acts
handleToggle_without_token_check(token) ==
    LET currentState == getState(ref) IN
    IF ~currentState.isRecording /\ ~currentState.isProcessing /\ ~currentState.isStarting
    THEN StartBranch
    ELSE IF currentState.isRecording \/ currentState.isStarting
         THEN StopBranch
         ELSE UNCHANGED coreVars

\* handleToggle as it was before isStarting was tracked (unnamed/part_000 458-467,
\* with the cues and the token check of the current one)
handleToggle_without_isStarting(token) ==
    IF ~isActiveToken(token)
    THEN UNCHANGED coreVars
    ELSE LET currentState == getState(ref) IN
         IF ~currentState.isRecording /\ ~currentState.isProcessing
         THEN StartBranch
         ELSE IF currentState.isRecording
              THEN StopBranch
              ELSE UNCHANGED coreVars

\* handleToggle (105-119)
handleToggle(token) ==
    IF ~isActiveToken(token)
    THEN UNCHANGED coreVars
    ELSE LET currentState == getState(ref) IN
         IF ~currentState.isRecording /\ ~currentState.isProcessing /\ ~currentState.isStarting
         THEN StartBranch
         ELSE IF currentState.isRecording \/ currentState.isStarting
              THEN StopBranch
              ELSE UNCHANGED coreVars

\* a handleStart that starts a capture whatever the manager is doing
handleStart_without_guard(token) ==
    IF ~isActiveToken(token)
    THEN UNCHANGED coreVars
    ELSE StartBranch

\* handleStart as it was before isStarting was tracked (unnamed/part_000 470-475)
handleStart_without_isStarting(token) ==
    IF ~isActiveToken(token)
    THEN UNCHANGED coreVars
    ELSE LET currentState == getState(ref) IN
         IF ~currentState.isRecording /\ ~currentState.isProcessing
         THEN StartBranch
         ELSE UNCHANGED coreVars

\* handleStart (122-131)
handleStart(token) ==
    IF ~isActiveToken(token)
    THEN UNCHANGED coreVars
    ELSE LET currentState == getState(ref) IN
         IF ~currentState.isRecording /\ ~currentState.isProcessing /\ ~currentState.isStarting
         THEN StartBranch
         ELSE UNCHANGED coreVars

\* handleStop as it was before isStarting was tracked (unnamed/part_000 478-483)
handleStop_recording_only(token) ==
    IF ~isActiveToken(token)
    THEN UNCHANGED coreVars
    ELSE LET currentState == getState(ref) IN
         IF currentState.isRecording
         THEN StopBranch
         ELSE UNCHANGED coreVars

\* handleStop (134-142)
handleStop(token) ==
    IF ~isActiveToken(token)
    THEN UNCHANGED coreVars
    ELSE LET currentState == getState(ref) IN
         IF currentState.isRecording \/ currentState.isStarting
         THEN StopBranch
         ELSE UNCHANGED coreVars

(***************************************************************************)
(* Event delivery: every event goes to every listener registered for it    *)
(***************************************************************************)
HotkeyKinds == {"toggle-dictation", "start-dictation", "stop-dictation"}
BackendKinds == {"backend-dictation-show-window", "backend-dictation-error",
                 "backend-dictation-recording", "backend-dictation-processing",
                 "backend-dictation-result"}
NoEvent == [kind |-> "none", payload |-> "", targets |-> {}, heard |-> {}, cues |-> 0]

Payloads(kind) ==
    CASE kind \in {"backend-dictation-recording", "backend-dictation-processing"} -> {"true", "false"}
      [] kind = "backend-dictation-result" -> {"hello world"}
      [] OTHER -> {""}

\* the backend emits an event; the listeners registered at that moment will get it
Emit(kind, payload) ==
    /\ events < MaxEvents
    /\ inflight.targets = {}
    /\ events' = events + 1
    /\ inflight' = [kind |-> kind, payload |-> payload,
                    targets |-> {g \in Tokens : reg[g] = "active"},
                    heard |-> {}, cues |-> 0]
    /\ UNCHANGED <<coreVars, lifeVars, onToggleCalls, pasteVars>>

\* the event of this kind is delivered to the listener registered under token
Delivered(token, kind) ==
    /\ inflight.kind = kind
    /\ token \in inflight.targets
    /\ UNCHANGED <<lifeVars, events, pasteVars>>

\* start and stop cues played so far
Cues(snd) == snd.start + snd.stop

\* bookkeeping of that delivery: the listener has heard the event, and the cues
\* its callback played are counted against the event
Heard(token) ==
    inflight' = [inflight EXCEPT !.targets = @ \ {token},
                                 !.heard = @ \cup {token},
                                 !.cues = @ + (Cues(sounds') - Cues(sounds))]

\* onToggleDictation listener (157-162): handleToggle(); onToggleRef.current?.()
onToggleDictation(token) ==
    /\ Delivered(token, "toggle-dictation")
    /\ handleToggle(token)
    /\ onToggleCalls' = onToggleCalls + 1
    /\ Heard(token)

\* onStartDictation listener (164-169)
onStartDictation(token) ==
    /\ Delivered(token, "start-dictation")
    /\ handleStart(token)
    /\ onToggleCalls' = onToggleCalls + 1
    /\ Heard(token)

\* onStopDictation listener (171-176)
onStopDictation(token) ==
    /\ Delivered(token, "stop-dictation")
    /\ handleStop(token)
    /\ onToggleCalls' = onToggleCalls + 1
    /\ Heard(token)

\* onBackendDictationShowWindow listener (178-183)
onBackendDictationShowWindow(token) ==
    /\ Delivered(token, "backend-dictation-show-window")
    /\ windowShown' = IF isActiveToken(token) THEN TRUE ELSE windowShown
    /\ UNCHANGED <<mgr, ui, transcript, sounds, toasts, bcast, timers, saved, onToggleCalls>>
    /\ Heard(token)

\* onBackendDictationError listener (185-194)
onBackendDictationError(token) ==
    /\ Delivered(token, "backend-dictation-error")
    /\ onError(token, "Backend")
    /\ UNCHANGED <<mgr, ui, transcript, sounds, bcast, windowShown, timers, saved, onToggleCalls>>
    /\ Heard(token)

\* onBackendDictationRecording listener (196-207)
onBackendDictationRecording(token) ==
    /\ Delivered(token, "backend-dictation-recording")
    /\ LET next == inflight.payload = "true" IN
       IF isActiveToken(token)
       THEN /\ ui' = [ui EXCEPT !.isRecording = next]
            /\ sounds' = IF next THEN [sounds EXCEPT !.start = @ + 1]
                                 ELSE [sounds EXCEPT !.stop = @ + 1]
       ELSE UNCHANGED <<ui, sounds>>
    /\ UNCHANGED <<mgr, transcript, toasts, bcast, windowShown, timers, saved, onToggleCalls>>
    /\ Heard(token)

\* onBackendDictationProcessing listener (209-214)
onBackendDictationProcessing(token) ==
    /\ Delivered(token, "backend-dictation-processing")
    /\ ui' = IF isActiveToken(token) THEN [ui EXCEPT !.isProcessing = (inflight.payload = "true")]
                                     ELSE ui
    /\ UNCHANGED <<mgr, transcript, sounds, toasts, bcast, windowShown, timers, saved, onToggleCalls>>
    /\ Heard(token)

\* onBackendDictationResult listener (216-222)
onBackendDictationResult(token) ==
    /\ Delivered(token, "backend-dictation-result")
    /\ IF isActiveToken(token)
       THEN /\ transcript' = inflight.payload
            /\ sounds' = [sounds EXCEPT !.complete = @ + 1]
       ELSE UNCHANGED <<transcript, sounds>>
    /\ UNCHANGED <<mgr, ui, toasts, bcast, windowShown, timers, saved, onToggleCalls>>
    /\ Heard(token)

\* toggleListening (289-306): the same decision taken from a click in the window
toggleListening ==
    /\ events < MaxEvents
    /\ ref # NoToken
    /\ events' = events + 1
    /\ LET currentState == getState(ref) IN
       IF ~currentState.isRecording /\ ~currentState.isProcessing /\ ~currentState.isStarting
       THEN StartBranch
       ELSE IF currentState.isRecording \/ currentState.isStarting
            THEN StopBranch
            ELSE UNCHANGED coreVars
    /\ UNCHANGED <<lifeVars, onToggleCalls, inflight, pasteVars>>

(***************************************************************************)
(* Mount and unmount of the effect (useAudioRecording.js 40-43, 235-265)   *)
(***************************************************************************)
\* effect body: new AudioManager, a fresh token becomes the active one, the
\* listeners are asked for (each registration resolves later)
Mount ==
    /\ ~mounted
    /\ events < MaxEvents
    /\ events' = events + 1
    /\ LET token == issued + 1 IN
       /\ issued' = token
       /\ activeToken' = token
       /\ ref' = token
       /\ mgr' = [mgr EXCEPT ![token] = NewManager]
       /\ reg' = [reg EXCEPT ![token] = "pending"]
    /\ mounted' = TRUE
    /\ UNCHANGED <<wantUnlisten, ui, transcript, sounds, toasts, bcast, windowShown, timers,
                   saved, onToggleCalls, inflight, activationMode, unhandled, sideVars,
                   pasteVars>>

\* listen(...) resolves with the unlisten function: the listeners are live
RegistrationResolves(token) ==
    /\ reg[token] = "pending"
    /\ reg' = [reg EXCEPT ![token] = "active"]
    /\ UNCHANGED <<activeToken, issued, mounted, ref, wantUnlisten, coreVars, onToggleCalls,
                   inflight, events, activationMode, unhandled, sideVars,
                   pasteVars>>

\* effect cleanup: runCleanup is started for every listener (fire-and-forget) and
\* the AudioManager is cleaned up; the active token is left as it is
Unmount ==
    /\ mounted
    /\ events < MaxEvents
    /\ events' = events + 1
    /\ mounted' = FALSE
    /\ wantUnlisten' = wantUnlisten \cup {ref}
    /\ cleanup(ref)
    /\ UNCHANGED <<activeToken, issued, ref, reg, ui, transcript, sounds, toasts, bcast,
                   windowShown, timers, saved, onToggleCalls, inflight, activationMode,
                   unhandled, sideVars, pasteVars>>

\* runCleanup: const fn = await cleanup.promise; fn?.()
runCleanup(token) ==
    /\ token \in wantUnlisten
    /\ reg[token] = "active"
    /\ reg' = [reg EXCEPT ![token] = "released"]
    /\ UNCHANGED <<activeToken, issued, mounted, ref, wantUnlisten, coreVars, onToggleCalls,
                   inflight, events, activationMode, unhandled, sideVars,
                   pasteVars>>

(***************************************************************************)
(* The deferred paste (useAudioRecording.js 93-99)                         *)
(***************************************************************************)
\* a deferred paste that does not look at the token again when the timer fires
TimerFires_without_token_check(t, ctx) ==
    /\ t \in timers
    /\ timers' = timers \ {t}
    /\ safePaste(ref, t.text, ctx)
    /\ UNCHANGED <<lifeVars, mgr, ui, transcript, sounds, toasts, bcast, windowShown, saved,
                   onToggleCalls, inflight, events>>

\* the 500 ms timer fires: the token is checked again, then safePaste(result.text)
TimerFires(t, ctx) ==
    /\ t \in timers
    /\ timers' = timers \ {t}
    /\ IF isActiveToken(t.tok)
       THEN safePaste(ref, t.text, ctx)
       ELSE UNCHANGED pasteVars
    /\ UNCHANGED <<lifeVars, mgr, ui, transcript, sounds, toasts, bcast, windowShown, saved,
                   onToggleCalls, inflight, events>>

\* a safePaste whose promise settles only when the paste succeeded
PasteResolved_only_on_success ==
    /\ pastes["safePaste"].pc = "done"
    /\ pastes["safePaste"].result = "Ok"
    /\ PasteReturn("safePaste")
    /\ publish(pastes["safePaste"].tok, {"Result"})
    /\ saved' = saved + 1
    /\ UNCHANGED <<lifeVars, mgr, ui, transcript, sounds, toasts, windowShown, timers,
                   onToggleCalls, inflight, events>>

\* safePaste resolves: Pasting --paste-resolved(ok|failed)--> Idle, Result(text) on
\* success and Error(reason) on failure; then saveTranscription(result.text)
PasteResolved ==
    /\ pastes["safePaste"].pc = "done"
    /\ PasteReturn("safePaste")
    /\ LET p == pastes["safePaste"] IN
       IF p.result = "Ok"
       THEN /\ publish(p.tok, {"Result"})
            /\ UNCHANGED toasts
       ELSE /\ publish(p.tok, {"Error"})
            /\ onError(p.tok, p.result)
    /\ saved' = saved + 1
    /\ UNCHANGED <<lifeVars, mgr, ui, transcript, sounds, windowShown, timers,
                   onToggleCalls, inflight, events>>

(***************************************************************************)
(* RecordingOverlay (components/RecordingOverlay.jsx)                      *)
(***************************************************************************)
MaxOverlayMounts == 2
MaxOverlayEvents == 4

OverlayRuns == 1..MaxOverlayMounts
\* payloads of show-overlay; the empty one stands for a missing payload
OverlayPayloads == {"recording", "processing", ""}
\* times: how many times in a row the mounted overlay has handled it
NoOverlayEvent == [kind |-> "none", payload |-> "", times |-> 0]

\* the mounted overlay has handled one more event
OverlayHandled(kind, payload) ==
    overlayLast' = [kind |-> kind, payload |-> payload,
                    times |-> IF overlayLast.kind = kind /\ overlayLast.payload = payload
                              THEN overlayLast.times + 1 ELSE 1]

\* one run of the listener effect (9-41): where its async function is, the two
\* closure variables, and the two subscriptions
NewOverlayEffect == [pc |-> "none", unlistenShow |-> "null", unlistenHide |-> "null",
                     show |-> "none", hide |-> "none"]

\* useState("idle"), useState(false) (6-7)
NewOverlay == [state |-> "idle", visible |-> FALSE]

\* the effect body (9-31): the async function is started and awaits the import
OverlayMount ==
    /\ overlayMounted = 0
    /\ \E i \in OverlayRuns :
         /\ overlayEffect[i].pc = "none"
         /\ \A j \in OverlayRuns : j < i => overlayEffect[j].pc # "none"
         /\ overlayEffect' = [overlayEffect EXCEPT ![i].pc = "import"]
         /\ overlayMounted' = i
    /\ overlay' = NewOverlay
    /\ overlayLast' = NoOverlayEvent
    /\ UNCHANGED overlayEvents

\* const { listen } = await import("@tauri-apps/api/event") settles (15, 27)
OverlayImportSettles(i, ok) ==
    /\ overlayEffect[i].pc = "import"
    /\ overlayEffect' = [overlayEffect EXCEPT ![i].pc = IF ok THEN "listenShow" ELSE "failed"]
    /\ UNCHANGED <<overlayMounted, overlay, overlayLast, overlayEvents>>

\* unlistenShow = await listen("show-overlay", ...) settles (16-21, 27)
OverlayListenShowSettles(i, ok) ==
    /\ overlayEffect[i].pc = "listenShow"
    /\ overlayEffect' = IF ok
                        THEN [overlayEffect EXCEPT ![i].pc = "listenHide",
                                                   ![i].show = "registered",
                                                   ![i].unlistenShow = "fn"]
                        ELSE [overlayEffect EXCEPT ![i].pc = "failed"]
    /\ UNCHANGED <<overlayMounted, overlay, overlayLast, overlayEvents>>

\* unlistenHide = await listen("hide-overlay", ...) settles (22-25, 27)
OverlayListenHideSettles(i, ok) ==
    /\ overlayEffect[i].pc = "listenHide"
    /\ overlayEffect' = IF ok
                        THEN [overlayEffect EXCEPT ![i].pc = "ready",
                                                   ![i].hide = "registered",
                                                   ![i].unlistenHide = "fn"]
                        ELSE [overlayEffect EXCEPT ![i].pc = "failed"]
    /\ UNCHANGED <<overlayMounted, overlay, overlayLast, overlayEvents>>

\* the effect cleanup (33-40): unlistenShow?.(); unlistenHide?.() with whatever the
\* closure variables hold at that moment; the async function is not cancelled
OverlayCleanup ==
    /\ overlayMounted # 0
    /\ LET i == overlayMounted
           e == overlayEffect[i] IN
       overlayEffect' = [overlayEffect EXCEPT
           ![i].show = IF e.unlistenShow = "fn" THEN "released" ELSE e.show,
           ![i].hide = IF e.unlistenHide = "fn" THEN "released" ELSE e.hide]
    /\ overlayMounted' = 0
    /\ UNCHANGED <<overlay, overlayLast, overlayEvents>>

\* a show-overlay handler that flips the visibility on every event
showOverlay_toggling(o, payload) ==
    [state |-> IF payload = "" THEN "idle" ELSE payload, visible |-> ~o.visible]

\* the show-overlay handler (16-21): setState(String(payload || "idle")); setVisible(true)
showOverlay(o, payload) ==
    [state |-> IF payload = "" THEN "idle" ELSE payload, visible |-> TRUE]

\* the hide-overlay handler (22-25): setVisible(false)
hideOverlay(o) == [o EXCEPT !.visible = FALSE]

\* a show-overlay event reaches the listener of effect run i; a listener of a run
\* that is no longer mounted sets the state of an unmounted component
onShowOverlay(i, payload) ==
    /\ overlayEvents < MaxOverlayEvents
    /\ overlayEffect[i].show = "registered"
    /\ overlayEvents' = overlayEvents + 1
    /\ IF i = overlayMounted
       THEN /\ overlay' = showOverlay(overlay, payload)
            /\ OverlayHandled("show-overlay", payload)
       ELSE UNCHANGED <<overlay, overlayLast>>
    /\ UNCHANGED <<overlayEffect, overlayMounted>>

\* a hide-overlay event reaches the listener of effect run i
onHideOverlay(i) ==
    /\ overlayEvents < MaxOverlayEvents
    /\ overlayEffect[i].hide = "registered"
    /\ overlayEvents' = overlayEvents + 1
    /\ IF i = overlayMounted
       THEN /\ overlay' = hideOverlay(overlay)
            /\ OverlayHandled("hide-overlay", "")
       ELSE UNCHANGED <<overlay, overlayLast>>
    /\ UNCHANGED <<overlayEffect, overlayMounted>>

OverlayInit ==
    /\ overlayEffect = [i \in OverlayRuns |-> NewOverlayEffect]
    /\ overlayMounted = 0
    /\ overlay = NewOverlay
    /\ overlayLast = NoOverlayEvent
    /\ overlayEvents = 0

(***************************************************************************)
(* useHotkey (hooks/useHotkey.js, unnamed/part_001 1-85)                   *)
(***************************************************************************)
MaxHotkeyHooks == 2

HotkeyHooks == 1..MaxHotkeyHooks
\* keys that can be saved as the dictation key; "" stands for no saved key
Hotkeys == {"F1", "F2"}

\* const hasRegistered = useRef(false), before the effect has run
NewHotkeyHook == [pc |-> "none", hasRegistered |-> FALSE, hotkeyToUse |-> ""]

\* tauriAPI.updateHotkey (740-752): the result of invoke("register_hotkey"), and
\* any error of it, become { success }; the promise never rejects
updateHotkey(outcome) == [success |-> outcome = "true"]
RegisterOutcomes == {"true", "false", "error"}

\* the effect of instance i (18-66): the saved key or F1 is taken, and registration
\* starts unless the flag or the ref says it was done
useHotkey(i) ==
    /\ hotkeyHook[i].pc = "none"
    /\ \A j \in HotkeyHooks : j < i => hotkeyHook[j].pc # "none"
    /\ LET hotkeyToUse == IF dictationKey # "" THEN dictationKey ELSE "F1" IN
       /\ dictationKey' = hotkeyToUse
       /\ IF ~hotkeyRegistered /\ ~hotkeyHook[i].hasRegistered
          THEN /\ hotkeyRegistered' = TRUE
               /\ hotkeyHook' = [hotkeyHook EXCEPT ![i] = [pc |-> "delay", hasRegistered |-> TRUE,
                                                           hotkeyToUse |-> hotkeyToUse]]
          ELSE /\ hotkeyHook' = [hotkeyHook EXCEPT ![i].pc = "skipped",
                                                   ![i].hotkeyToUse = hotkeyToUse]
               /\ UNCHANGED hotkeyRegistered
    /\ UNCHANGED <<updateHotkeyAvailable, hotkeyFallback>>

\* the 100 ms timer of registerWithDelay fires (37-61): updateHotkey(hotkeyToUse) is
\* called if it is there; otherwise flag and ref are reset and a 500 ms retry is set
registerWithDelay(i) ==
    /\ hotkeyHook[i].pc = "delay"
    /\ IF updateHotkeyAvailable
       THEN /\ hotkeyHook' = [hotkeyHook EXCEPT ![i].pc = "calling"]
            /\ UNCHANGED hotkeyRegistered
       ELSE /\ hotkeyRegistered' = FALSE
            /\ hotkeyHook' = [hotkeyHook EXCEPT ![i].pc = "retry", ![i].hasRegistered = FALSE]
    /\ UNCHANGED <<updateHotkeyAvailable, dictationKey, hotkeyFallback>>

\* the 500 ms retry timer fires (59): registerWithDelay again
retryRegisterWithDelay(i) ==
    /\ hotkeyHook[i].pc = "retry"
    /\ hotkeyHook' = [hotkeyHook EXCEPT ![i].pc = "delay"]
    /\ UNCHANGED <<hotkeyRegistered, updateHotkeyAvailable, dictationKey, hotkeyFallback>>

\* the bridge finishes loading: window.electronAPI.updateHotkey is there from now on
electronAPILoaded ==
    /\ ~updateHotkeyAvailable
    /\ updateHotkeyAvailable' = TRUE
    /\ UNCHANGED <<hotkeyRegistered, hotkeyHook, dictationKey, hotkeyFallback>>

\* a then-handler that leaves the flag set when the registration failed
updateHotkeyThen_keeping_flag(i, outcome) ==
    /\ hotkeyHook[i].pc = "calling"
    /\ LET result == updateHotkey(outcome) IN
       hotkeyHook' = [hotkeyHook EXCEPT ![i].pc = IF result.success THEN "registered"
                                                                     ELSE "failed"]
    /\ UNCHANGED <<hotkeyRegistered, updateHotkeyAvailable, dictationKey, hotkeyFallback>>

\* updateHotkey(hotkeyToUse).then(...) (41-50; part_001 41-63): on failure the flag is
\* reset, unless this is the build with the fallback and F1 is still to be tried
updateHotkeyThen(i, outcome) ==
    /\ hotkeyHook[i].pc = "calling"
    /\ LET result == updateHotkey(outcome) IN
       IF result.success
       THEN /\ hotkeyHook' = [hotkeyHook EXCEPT ![i].pc = "registered"]
            /\ UNCHANGED hotkeyRegistered
       ELSE IF hotkeyFallback /\ hotkeyHook[i].hotkeyToUse # "F1" /\ updateHotkeyAvailable
            THEN /\ hotkeyHook' = [hotkeyHook EXCEPT ![i].pc = "fallback"]
                 /\ UNCHANGED hotkeyRegistered
            ELSE /\ hotkeyHook' = [hotkeyHook EXCEPT ![i].pc = "failed"]
                 /\ hotkeyRegistered' = FALSE
    /\ UNCHANGED <<updateHotkeyAvailable, dictationKey, hotkeyFallback>>

\* const fallback = await updateHotkey("F1") settles (part_001 50-61)
fallbackSettles(i, outcome) ==
    /\ hotkeyHook[i].pc = "fallback"
    /\ LET fallback == updateHotkey(outcome) IN
       IF fallback.success
       THEN /\ dictationKey' = "F1"
            /\ hotkeyRegistered' = TRUE
            /\ hotkeyHook' = [hotkeyHook EXCEPT ![i].pc = "registered"]
       ELSE /\ hotkeyRegistered' = FALSE
            /\ hotkeyHook' = [hotkeyHook EXCEPT ![i].pc = "failed"]
            /\ UNCHANGED dictationKey
    /\ UNCHANGED <<updateHotkeyAvailable, hotkeyFallback>>

\* a webview in which no useHotkey has run yet
HotkeyInit ==
    /\ hotkeyRegistered = FALSE
    /\ hotkeyHook = [i \in HotkeyHooks |-> NewHotkeyHook]
    /\ updateHotkeyAvailable \in BOOLEAN
    /\ dictationKey \in Hotkeys \cup {""}
    /\ hotkeyFallback \in BOOLEAN

(***************************************************************************)
(* Clipboard history: useClipboardListener (unnamed/part_000 340-420) in   *)
(* the main window, ClipboardSettings (ClipboardSettings.tsx) in another   *)
(***************************************************************************)
MaxClipEvents == 3

DEFAULT_MAX_ITEMS == 50

\* ids and contents of the payloads; "" stands for a missing or blank one
ItemIds == {"a", "b"}
PayloadIds == ItemIds \cup {""}
PayloadContents == {"x", ""}

\* what can stand in localStorage clipboard.maxItems and in the input field
RawMaxItems == {"abc", "-1", "0", "2"}
\* what the user can leave in the max-items input
InputValues == {"", "-1", "0", "1"}

\* a number as Number.parseInt returns it: NaN is the one that is not finite
Number(n) == [isFinite |-> TRUE, n |-> n]
NaN == [isFinite |-> FALSE, n |-> 0]

\* Number.parseInt(raw, 10)
parseInt(raw) ==
    CASE raw = "-1" -> Number(-1)
      [] raw = "0" -> Number(0)
      [] raw = "1" -> Number(1)
      [] raw = "2" -> Number(2)
      [] raw = "50" -> Number(50)
      [] OTHER -> NaN

\* String(n) for the numbers that are written back
String(n) ==
    CASE n = 1 -> "1"
      [] n = 2 -> "2"
      [] n = 50 -> "50"

\* raw ? Number.parseInt(raw, 10) : DEFAULT_MAX_ITEMS, then
\* Number.isFinite(parsed) && parsed > 0 ? parsed : DEFAULT_MAX_ITEMS
\* (part_000 376-378; ClipboardSettings.tsx 99-101, 324-325)
limitOf(raw) ==
    LET parsed == IF raw \in {"null", ""} THEN Number(DEFAULT_MAX_ITEMS) ELSE parseInt(raw) IN
    IF parsed.isFinite /\ parsed.n > 0 THEN parsed.n ELSE DEFAULT_MAX_ITEMS

\* raw === null ? true : raw === "true"
enabledOf(raw) == IF raw = "null" THEN TRUE ELSE raw = "true"

\* Array.prototype.slice(0, n): a negative n counts from the end
slice(items, n) ==
    LET end == IF n < 0
               THEN (IF Len(items) + n > 0 THEN Len(items) + n ELSE 0)
               ELSE (IF n < Len(items) THEN n ELSE Len(items)) IN
    SubSeq(items, 1, end)

\* current.some((item) => item.id === id)
some(items, id) == \E k \in 1..Len(items) : items[k] = id

\* no listener of ClipboardSettings, no event
NoClipUpdate == [id |-> "", content |-> "", main |-> FALSE, targets |-> {}]

\* a write of clipboard.history by the main window raises a storage event in the
\* window of ClipboardSettings (310-330), if there is one and the value changed
storageEvent(key, newValue, changed) ==
    storageEvents' = IF settings.mounted /\ changed
                     THEN Append(storageEvents, [key |-> key, newValue |-> newValue])
                     ELSE storageEvents

\* the listener effect (287-308) runs for a new handleClipboardUpdate: the cleanup
\* of the previous run calls unlisten?.(), which is still undefined while that
\* run's listen() is pending, and a new registration is started
listenerEffect(enabled, maxItems) ==
    IF \E l \in clipListeners : l.current /\ l.enabled = enabled /\ l.maxItems = maxItems
    THEN UNCHANGED clipListeners
    ELSE clipListeners' =
           {l \in clipListeners : ~l.current}
         \cup {[l EXCEPT !.current = FALSE] : l \in {k \in clipListeners : k.current /\ k.st = "pending"}}
         \cup {[enabled |-> enabled, maxItems |-> maxItems, st |-> "pending", current |-> TRUE]}

\* ClipboardSettings is rendered: its state is read from localStorage (87-116) and
\* the listener effect runs
ClipboardSettings ==
    /\ ~settings.mounted
    /\ clipEvents < MaxClipEvents
    /\ clipEvents' = clipEvents + 1
    /\ settings' = [mounted |-> TRUE, enabled |-> enabledOf(lsEnabled),
                    maxItems |-> limitOf(lsMaxItems), history |-> lsHistory]
    /\ listenerEffect(enabledOf(lsEnabled), limitOf(lsMaxItems))
    /\ UNCHANGED <<lsEnabled, lsMaxItems, lsHistory, storageEvents, clipUpdate>>

\* unlisten = await listen("clipboard-update", ...) resolves (290-299)
listenResolves(l) ==
    /\ l \in clipListeners
    /\ l.st = "pending"
    /\ clipListeners' = (clipListeners \ {l}) \cup {[l EXCEPT !.st = "registered"]}
    /\ UNCHANGED <<lsEnabled, lsMaxItems, lsHistory, settings, storageEvents, clipUpdate,
                   clipEvents>>

\* the backend emits clipboard-update: the main window's listener and the listeners
\* of ClipboardSettings registered at that moment will get it
EmitClipboardUpdate(id, content) ==
    /\ clipEvents < MaxClipEvents
    /\ ~clipUpdate.main
    /\ clipUpdate.targets = {}
    /\ clipEvents' = clipEvents + 1
    /\ clipUpdate' = [id |-> id, content |-> content, main |-> TRUE,
                      targets |-> {l \in clipListeners : l.st = "registered"}]
    /\ UNCHANGED <<lsEnabled, lsMaxItems, lsHistory, settings, clipListeners, storageEvents>>

\* useClipboardListener.handleClipboardUpdate (part_000 361-396)
useClipboardListener_handleClipboardUpdate ==
    /\ clipUpdate.main
    /\ clipUpdate' = [clipUpdate EXCEPT !.main = FALSE]
    /\ LET id == clipUpdate.id
           content == clipUpdate.content
           limit == limitOf(lsMaxItems)
           current == lsHistory IN
       IF ~enabledOf(lsEnabled) \/ id = "" \/ content = "" \/ some(current, id)
       THEN UNCHANGED <<lsHistory, storageEvents>>
       ELSE /\ lsHistory' = slice(<<id>> \o current, limit)
            /\ storageEvent("clipboard.history", lsHistory', lsHistory' # lsHistory)
    /\ UNCHANGED <<lsEnabled, lsMaxItems, settings, clipListeners, clipEvents>>

\* ClipboardSettings.handleClipboardUpdate (255-284) as the listener l holds it:
\* enabled and maxItems are those of the render that made it, history is the
\* current React state (functional update); a listener released meanwhile is
\* not called, a state update of an unmounted component is dropped
ClipboardSettings_handleClipboardUpdate(l) ==
    /\ l \in clipUpdate.targets
    /\ clipUpdate' = [clipUpdate EXCEPT !.targets = @ \ {l}]
    /\ LET id == clipUpdate.id
           content == clipUpdate.content
           prev == settings.history IN
       IF ~settings.mounted \/ l \notin clipListeners \/ ~l.enabled \/ id = "" \/ content = "" \/ some(prev, id)
       THEN UNCHANGED <<lsHistory, settings>>
       ELSE LET trimmed == slice(<<id>> \o prev, l.maxItems) IN
            /\ lsHistory' = trimmed
            /\ settings' = [settings EXCEPT !.history = trimmed]
    /\ UNCHANGED <<lsEnabled, lsMaxItems, clipListeners, storageEvents, clipEvents>>

\* persistEnabled (200-207), from the Toggle (535)
persistEnabled(value) ==
    /\ settings.mounted
    /\ clipEvents < MaxClipEvents
    /\ clipEvents' = clipEvents + 1
    /\ settings' = [settings EXCEPT !.enabled = value]
    /\ lsEnabled' = IF value THEN "true" ELSE "false"
    /\ listenerEffect(value, settings.maxItems)
    /\ UNCHANGED <<lsMaxItems, lsHistory, storageEvents, clipUpdate>>

\* the max-items Input onChange (541-549): the parsed number goes into the state as
\* it is, only a non-number becomes the default
onChange(raw) ==
    /\ settings.mounted
    /\ clipEvents < MaxClipEvents
    /\ clipEvents' = clipEvents + 1
    /\ LET next == parseInt(raw)
           value == IF ~next.isFinite THEN DEFAULT_MAX_ITEMS ELSE next.n IN
       /\ settings' = [settings EXCEPT !.maxItems = value]
       /\ listenerEffect(settings.enabled, value)
    /\ UNCHANGED <<lsEnabled, lsMaxItems, lsHistory, storageEvents, clipUpdate>>

\* the Input onBlur (550): persistMaxItems(maxItems) (209-226)
persistMaxItems ==
    /\ settings.mounted
    /\ clipEvents < MaxClipEvents
    /\ clipEvents' = clipEvents + 1
    /\ LET value == settings.maxItems
           next == IF value > 0 THEN value ELSE DEFAULT_MAX_ITEMS
           trimmed == slice(settings.history, next) IN
       /\ settings' = [settings EXCEPT !.maxItems = next, !.history = trimmed]
       /\ lsMaxItems' = String(next)
       /\ lsHistory' = trimmed
       /\ listenerEffect(settings.enabled, next)
    /\ UNCHANGED <<lsEnabled, storageEvents, clipUpdate>>

\* handleClearHistory (420-422): persistHistory([]) (228-239)
handleClearHistory ==
    /\ settings.mounted
    /\ clipEvents < MaxClipEvents
    /\ clipEvents' = clipEvents + 1
    /\ settings' = [settings EXCEPT !.history = <<>>]
    /\ lsHistory' = <<>>
    /\ UNCHANGED <<lsEnabled, lsMaxItems, clipListeners, storageEvents, clipUpdate>>

\* onStorage (311-327) for the key clipboard.history, the only one the main
\* window writes
onStorage ==
    /\ storageEvents # <<>>
    /\ storageEvents' = Tail(storageEvents)
    /\ settings' = IF settings.mounted
                   THEN [settings EXCEPT !.history = Head(storageEvents).newValue]
                   ELSE settings
    /\ UNCHANGED <<lsEnabled, lsMaxItems, lsHistory, clipListeners, clipUpdate, clipEvents>>

\* nothing stored yet or one item; any value of the settings; ClipboardSettings
\* not rendered
HistoryInit ==
    /\ lsEnabled \in {"null", "false"}
    /\ lsMaxItems \in {"null"} \cup RawMaxItems
    /\ lsHistory \in {<<>>, <<"a">>}
    /\ settings = [mounted |-> FALSE, enabled |-> TRUE, maxItems |-> DEFAULT_MAX_ITEMS,
                   history |-> <<>>]
    /\ clipListeners = {}
    /\ storageEvents = <<>>
    /\ clipUpdate = NoClipUpdate
    /\ clipEvents = 0

\* the components next to the session, as the session specifications hold them
SideInit ==
    /\ OverlayInit
    /\ HotkeyInit
    /\ updateHotkeyAvailable
    /\ dictationKey = "F1"
    /\ ~hotkeyFallback
    /\ HistoryInit
    /\ lsEnabled = "null"
    /\ lsMaxItems = "null"
    /\ lsHistory = <<>>

(***************************************************************************)
(* Specifications                                                          *)
(***************************************************************************)
vars == <<pasteVars, sessVars, unhandled>>

NothingPasted == "<nothing>"

PasteInit ==
    /\ clipboard \in ClipContents
    /\ pastes = [s \in Slots |-> FreeSlot]
    /\ synthCtxs = {}
    /\ pasted = NothingPasted
    /\ observed = clipboard
    /\ unhandled = FALSE

\* the hook has mounted once: token 1 is active and its listeners are asked for
SessionInit ==
    /\ activeToken = 1
    /\ issued = 1
    /\ mounted = TRUE
    /\ ref = 1
    /\ reg = [g \in Tokens |-> IF g = 1 THEN "pending" ELSE "none"]
    /\ wantUnlisten = {}
    /\ mgr = [g \in Tokens |-> NewManager]
    /\ ui = [isRecording |-> FALSE, isProcessing |-> FALSE]
    /\ transcript = ""
    /\ sounds = [start |-> 0, stop |-> 0, complete |-> 0]
    /\ toasts = [k \in ErrorKinds |-> 0]
    /\ bcast = [k \in BroadcastKinds |-> 0]
    /\ onToggleCalls = 0
    /\ windowShown = FALSE
    /\ timers = {}
    /\ saved = 0
    /\ inflight = NoEvent
    /\ events = 0

\* any clipboard content, an idle session
ClipInit ==
    /\ PasteInit
    /\ SideInit
    /\ SessionInit
    /\ activationMode = "tap"

\* one paste at a time: the contract of paste_text taken alone
PasteNext ==
    \/ \E text \in Transcripts, ctx \in Contexts : safePaste(NoToken, text, ctx)
    \/ paste_text("safePaste")
    \/ PasteReturn("safePaste")

SpecPaste == ClipInit /\ [][PasteNext /\ UNCHANGED <<sessVars, unhandled>>]_vars

\* every caller of the clipboard, interleaved
ClipNext ==
    \/ (\E text \in Transcripts, ctx \in Contexts : safePaste(NoToken, text, ctx))
          /\ UNCHANGED unhandled
    \/ (\E item \in HistoryItems, ctx \in Contexts : handlePaste(item, ctx))
          /\ UNCHANGED unhandled
    \/ (\E item \in HistoryItems : handleCopy(item)) /\ UNCHANGED unhandled
    \/ (\E s \in Slots : paste_text(s)) /\ UNCHANGED unhandled
    \/ PasteReturn("safePaste") /\ UNCHANGED unhandled
    \/ handlePasteSettles

SpecClip == ClipInit /\ [][ClipNext /\ UNCHANGED sessVars]_vars

\* the dictation session: hotkey events, async completions, remounts
Init ==
    /\ PasteInit
    /\ SideInit
    /\ clipboard = "previous"
    /\ SessionInit
    /\ activationMode = "tap"

\* what the transcription service returns in the session specifications
Dictated == {"hello world"}

\* steps of the AudioManager
AsyncNext ==
    \/ \E g \in Tokens : CaptureReady(g)
    \/ \E g \in Tokens : DeferredStop(g)
    \/ \E g \in Tokens : CaptureFailed(g)
    \/ \E g \in Tokens, text \in Dictated : TranscriptionResolved(g, text)
    \/ \E g \in Tokens : TranscriptionFailed(g)
    \/ \E g \in Tokens : ErrorReported(g)

Next ==
    \/ Mount
    \/ Unmount
    \/ \E g \in Tokens : RegistrationResolves(g)
    \/ \E g \in Tokens : runCleanup(g)
    \/ \E kind \in HotkeyKinds : Emit(kind, "")
    \/ \E g \in Tokens : onToggleDictation(g)
    \/ \E g \in Tokens : onStartDictation(g)
    \/ \E g \in Tokens : onStopDictation(g)
    \/ toggleListening
    \/ AsyncNext /\ UNCHANGED <<lifeVars, onToggleCalls, inflight, events, pasteVars>>
    \/ \E t \in timers, ctx \in Contexts : TimerFires(t, ctx)
    \/ paste_text("safePaste") /\ UNCHANGED <<sessVars, unhandled>>
    \/ PasteResolved

Spec == Init /\ [][Next]_vars

\* the same session with the backend dictation events delivered to its listeners
BackendNext ==
    \/ Next
    \/ \E kind \in BackendKinds : \E payload \in Payloads(kind) : Emit(kind, payload)
    \/ \E g \in Tokens : onBackendDictationShowWindow(g)
    \/ \E g \in Tokens : onBackendDictationError(g)
    \/ \E g \in Tokens : onBackendDictationRecording(g)
    \/ \E g \in Tokens : onBackendDictationProcessing(g)
    \/ \E g \in Tokens : onBackendDictationResult(g)

SpecBackend == Init /\ [][BackendNext]_vars

\* the session under either activation mode
ModeInit ==
    /\ PasteInit
    /\ SideInit
    /\ clipboard = "previous"
    /\ SessionInit
    /\ activationMode \in {"tap", "push"}

SpecMode == ModeInit /\ [][Next]_vars

\* what completes by itself once started: the manager's steps, the 500 ms timer,
\* the steps of paste_text and the resolution of safePaste
Completions ==
    \/ AsyncNext /\ UNCHANGED <<lifeVars, onToggleCalls, inflight, events, pasteVars>>
    \/ \E t \in timers, ctx \in Contexts : TimerFires(t, ctx)
    \/ paste_text("safePaste") /\ UNCHANGED <<sessVars, unhandled>>
    \/ PasteResolved

\* one mounted session: hotkey presses (at most MaxPresses events), clicks and
\* the completions
LiveNext ==
    \/ \E g \in Tokens : RegistrationResolves(g)
    \/ \E kind \in HotkeyKinds : events < MaxPresses /\ Emit(kind, "")
    \/ \E g \in Tokens : onToggleDictation(g)
    \/ \E g \in Tokens : onStartDictation(g)
    \/ \E g \in Tokens : onStopDictation(g)
    \/ events < MaxPresses /\ toggleListening
    \/ Completions

\* every external call that was started eventually completes, and a delivered
\* event eventually reaches its listener
SpecLive ==
    /\ Init
    /\ [][LiveNext]_vars
    /\ WF_vars(Completions)
    /\ WF_vars(\E g \in Tokens : onToggleDictation(g) \/ onStartDictation(g) \/ onStopDictation(g))

\* the session started with any content on the clipboard
SpecAnyClipboard == ClipInit /\ [][Next]_vars

\* the user, or another application, puts something on the clipboard
userCopies(c) ==
    /\ clipboard' = c
    /\ UNCHANGED <<pastes, synthCtxs, pasted, observed>>

\* one paste at a time while the clipboard is also written from outside
UserClipboardNext ==
    \/ (\E text \in Transcripts, ctx \in Contexts : safePaste(NoToken, text, ctx))
          /\ UNCHANGED <<sessVars, unhandled>>
    \/ paste_text("safePaste") /\ UNCHANGED <<sessVars, unhandled>>
    \/ PasteReturn("safePaste") /\ UNCHANGED <<sessVars, unhandled>>
    \/ (\E c \in ClipContents : userCopies(c)) /\ UNCHANGED <<sessVars, unhandled>>

SpecUserClipboard == ClipInit /\ [][UserClipboardNext]_vars

\* the subscriptions of the hook and of the overlay over mounts and unmounts
SubscriptionsNext ==
    \/ Mount
    \/ Unmount
    \/ \E g \in Tokens : RegistrationResolves(g)
    \/ \E g \in Tokens : runCleanup(g)
    \/ OverlayMount /\ UNCHANGED notOverlayVars
    \/ (\E i \in OverlayRuns, ok \in BOOLEAN : OverlayImportSettles(i, ok))
          /\ UNCHANGED notOverlayVars
    \/ (\E i \in OverlayRuns, ok \in BOOLEAN : OverlayListenShowSettles(i, ok))
          /\ UNCHANGED notOverlayVars
    \/ (\E i \in OverlayRuns, ok \in BOOLEAN : OverlayListenHideSettles(i, ok))
          /\ UNCHANGED notOverlayVars
    \/ OverlayCleanup /\ UNCHANGED notOverlayVars

\* what completes by itself: a registration that was asked for resolves, a
\* cleanup that awaits it then runs, the overlay's async function goes on
SubscriptionsSettle ==
    \/ \E g \in Tokens : RegistrationResolves(g)
    \/ \E g \in Tokens : runCleanup(g)
    \/ (\E i \in OverlayRuns, ok \in BOOLEAN : OverlayImportSettles(i, ok))
          /\ UNCHANGED notOverlayVars
    \/ (\E i \in OverlayRuns, ok \in BOOLEAN : OverlayListenShowSettles(i, ok))
          /\ UNCHANGED notOverlayVars
    \/ (\E i \in OverlayRuns, ok \in BOOLEAN : OverlayListenHideSettles(i, ok))
          /\ UNCHANGED notOverlayVars

SpecSubscriptions ==
    /\ Init
    /\ [][SubscriptionsNext]_vars
    /\ WF_vars(SubscriptionsSettle)

\* the hotkey registration of a webview: the useHotkey instances that mount in it
HotkeyStart ==
    /\ PasteInit
    /\ clipboard = "previous"
    /\ SessionInit
    /\ activationMode = "tap"
    /\ OverlayInit
    /\ HotkeyInit
    /\ HistoryInit
    /\ lsEnabled = "null"
    /\ lsMaxItems = "null"
    /\ lsHistory = <<>>

HotkeyNext ==
    \/ (\E i \in HotkeyHooks : useHotkey(i)) /\ UNCHANGED notHotkeyVars
    \/ (\E i \in HotkeyHooks : registerWithDelay(i)) /\ UNCHANGED notHotkeyVars
    \/ (\E i \in HotkeyHooks : retryRegisterWithDelay(i)) /\ UNCHANGED notHotkeyVars
    \/ electronAPILoaded /\ UNCHANGED notHotkeyVars
    \/ (\E i \in HotkeyHooks, outcome \in RegisterOutcomes : updateHotkeyThen(i, outcome))
          /\ UNCHANGED notHotkeyVars
    \/ (\E i \in HotkeyHooks, outcome \in RegisterOutcomes : fallbackSettles(i, outcome))
          /\ UNCHANGED notHotkeyVars

SpecHotkey == HotkeyStart /\ [][HotkeyNext]_vars

\* the clipboard history: updates from the backend, the settings page and its
\* listeners, the main window's listener
HistoryStart ==
    /\ PasteInit
    /\ clipboard = "previous"
    /\ SessionInit
    /\ activationMode = "tap"
    /\ OverlayInit
    /\ HotkeyInit
    /\ updateHotkeyAvailable
    /\ dictationKey = "F1"
    /\ ~hotkeyFallback
    /\ HistoryInit

HistoryNext ==
    \/ ClipboardSettings /\ UNCHANGED notHistoryVars
    \/ (\E l \in clipListeners : listenResolves(l)) /\ UNCHANGED notHistoryVars
    \/ (\E id \in PayloadIds, content \in PayloadContents : EmitClipboardUpdate(id, content))
          /\ UNCHANGED notHistoryVars
    \/ useClipboardListener_handleClipboardUpdate /\ UNCHANGED notHistoryVars
    \/ (\E l \in clipListeners : ClipboardSettings_handleClipboardUpdate(l))
          /\ UNCHANGED notHistoryVars
    \/ (\E value \in BOOLEAN : persistEnabled(value)) /\ UNCHANGED notHistoryVars
    \/ (\E raw \in InputValues : onChange(raw)) /\ UNCHANGED notHistoryVars
    \/ persistMaxItems /\ UNCHANGED notHistoryVars
    \/ handleClearHistory /\ UNCHANGED notHistoryVars
    \/ onStorage /\ UNCHANGED notHistoryVars

SpecHistory == HistoryStart /\ [][HistoryNext]_vars

\* the overlay window: its mounts and the events it is sent
OverlayNext ==
    \/ OverlayMount /\ UNCHANGED notOverlayVars
    \/ (\E i \in OverlayRuns, ok \in BOOLEAN : OverlayImportSettles(i, ok))
          /\ UNCHANGED notOverlayVars
    \/ (\E i \in OverlayRuns, ok \in BOOLEAN : OverlayListenShowSettles(i, ok))
          /\ UNCHANGED notOverlayVars
    \/ (\E i \in OverlayRuns, ok \in BOOLEAN : OverlayListenHideSettles(i, ok))
          /\ UNCHANGED notOverlayVars
    \/ OverlayCleanup /\ UNCHANGED notOverlayVars
    \/ (\E i \in OverlayRuns, payload \in OverlayPayloads : onShowOverlay(i, payload))
          /\ UNCHANGED notOverlayVars
    \/ (\E i \in OverlayRuns : onHideOverlay(i))
          /\ UNCHANGED notOverlayVars

SpecOverlay == Init /\ [][OverlayNext]_vars

(***************************************************************************)
(* Properties of paste_text and of the callers of the clipboard            *)
(***************************************************************************)
\* paste_text commands that have begun and not yet finished
PastesInFlight == {s \in Slots : pastes[s].pc \notin {"free", "done"}}

\* C4: clipboard round trip. Whatever the clipboard held before the paste (text,
\* an image, nothing), after a paste that returns Ok the clipboard holds what was
\* observed immediately before the paste began.
C4_ClipboardRoundTrip ==
    (pastes["safePaste"].pc = "done" /\ pastes["safePaste"].result = "Ok")
        => clipboard = observed

C6_OneClipboardMutator ==
    [][ /\ Cardinality(PastesInFlight') <= 1
        /\ clipboard' # clipboard => \E s \in Slots : pastes'[s] # pastes[s] ]_vars

\* C10: when the synthetic keystroke fails the snapshot is not restored: the
\* command returns SynthesisFailed and the clipboard still holds the transcript.
C10_SynthesisFailureKeepsTranscript ==
    \A s \in Slots :
        (pastes[s].synth /\ pastes[s].pc = "done" /\ pastes[s].result # "Ok")
            => pastes[s].result = "SynthesisFailed" /\ clipboard = pastes[s].text

\* the keystroke failed after a text snapshot had been taken, and the transcript
\* is what the clipboard holds
C10_FailedWithSnapshot ==
    /\ pastes["safePaste"].pc = "done"
    /\ pastes["safePaste"].result = "SynthesisFailed"
    /\ pastes["safePaste"].prev = "previous"
    /\ pastes["safePaste"].text = "draft text"
    /\ clipboard = "draft text"

(***************************************************************************)
(* Properties of the dictation session                                     *)
(***************************************************************************)
\* this step delivers the in-flight event of the given kind to the listener of token g
DeliveredTo(g, kind) ==
    /\ inflight.kind = kind
    /\ g \in inflight.targets
    /\ inflight'.targets = inflight.targets \ {g}

\* this step is a click on the window reaching toggleListening (an Emit that finds
\* a registered listener always changes inflight)
ToggleClicked ==
    /\ events' = events + 1
    /\ UNCHANGED <<inflight, mounted>>
    /\ \E g \in Tokens : reg[g] = "active"

\* this step handles a Toggle in the session of token g
ToggleOn(g) ==
    /\ g = activeToken
    /\ DeliveredTo(g, "toggle-dictation") \/ ToggleClicked

\* this step handles an event that may start a capture
StartHandled ==
    \/ \E g \in Tokens : DeliveredTo(g, "toggle-dictation") \/ DeliveredTo(g, "start-dictation")
    \/ events' = events + 1 /\ UNCHANGED <<inflight, mounted>>

\* C1: a session never has two captures open, and a capture is opened only in
\* the step that handles a Toggle or PushStart while the session is neither
\* starting, recording nor processing: a start event arriving in another phase
\* starts nothing, then or later.
C1_AtMostOneCapture ==
    [][ \A g \in Tokens :
          /\ mgr'[g].captures <= 1
          /\ mgr'[g].captures > mgr[g].captures =>
                /\ mgr[g].st \notin {"starting", "recording", "processing"}
                /\ StartHandled ]_vars

\* a PushStart was delivered while the capture opened by a click was still
\* starting, and there is still that one capture
C1_StartIgnoredWhileStarting ==
    /\ issued = 1
    /\ events = 2
    /\ onToggleCalls = 1
    /\ inflight.kind = "start-dictation"
    /\ inflight.targets = {}
    /\ sounds = [start |-> 1, stop |-> 0, complete |-> 0]
    /\ mgr[1].st = "starting"
    /\ mgr[1].captures = 1

\* this step runs a callback or listener captured under the replaced token g
StaleStep(g) ==
    /\ g # activeToken
    /\ \/ \E kind \in HotkeyKinds \cup BackendKinds : DeliveredTo(g, kind)
       \/ mgr'[g] # mgr[g]
       \/ pastes["safePaste"].tok = g /\ pastes["safePaste"].pc = "done"
            /\ pastes'["safePaste"].pc = "free"

\* C2: once a new token has been issued, whatever fires under an earlier token
\* (state change, error, transcription complete, hotkey and backend listeners,
\* the deferred paste) changes no phase, publishes nothing and has no other
\* side effect.
C2_StaleGenerationNoOp ==
    [][ \A g \in Tokens : StaleStep(g) =>
          /\ mgr'[activeToken] = mgr[activeToken]
          /\ UNCHANGED <<ui, transcript, sounds, toasts, bcast, windowShown, timers,
                         saved, onToggleCalls, clipboard>> ]_vars

StopCuePlayed == sounds' = [sounds EXCEPT !.stop = @ + 1]
StartCuePlayed == sounds' = [sounds EXCEPT !.start = @ + 1]

C9_ModeSelectsEvents ==
    [][ LET g == activeToken IN
        /\ (activationMode = "tap" /\ DeliveredTo(g, "toggle-dictation")) =>
              /\ Phase(g) = "Idle" => Phase(g)' = "Starting"
              /\ Phase(g) = "Recording" => Phase(g)' = "Transcribing"
        /\ (activationMode = "push" /\ DeliveredTo(g, "start-dictation")) =>
              (Phase(g) = "Idle" => Phase(g)' = "Starting")
        /\ (activationMode = "push" /\ DeliveredTo(g, "stop-dictation")) =>
              (Phase(g) = "Recording" => Phase(g)' = "Transcribing")
        /\ (activationMode = "push" /\ DeliveredTo(g, "toggle-dictation")) =>
              UNCHANGED coreVars ]_vars

(***************************************************************************)
(* Errors of a dictation cycle                                             *)
(***************************************************************************)
\* error toasts shown so far
TotalToasts ==
    toasts["CaptureFailed"] + toasts["TranscriptionFailed"] + toasts["PermissionDenied"]
        + toasts["ClipboardWriteFailed"] + toasts["SynthesisFailed"] + toasts["Backend"]

\* this step resolves the safePaste started under token g
PasteResolvedFor(g) ==
    /\ pastes["safePaste"].tok = g
    /\ pastes["safePaste"].pc = "done"
    /\ pastes'["safePaste"].pc = "free"

\* this step ends the cycle of the live session g in a terminal failure: the
\* capture failed, the transcription error was reported, or the paste failed
FailureEnds(g) ==
    /\ g = activeToken
    /\ \/ mgr[g].st = "starting" /\ mgr'[g].st = "idle" /\ mounted' = mounted
       \/ mgr[g].st = "error" /\ mgr'[g].st = "idle"
       \/ PasteResolvedFor(g) /\ pastes["safePaste"].result # "Ok"

\* this step ends the cycle of the live session g in success
SuccessEnds(g) ==
    /\ g = activeToken
    /\ PasteResolvedFor(g)
    /\ pastes["safePaste"].result = "Ok"

C12_NoUnhandledRejection ==
    ~unhandled

(***************************************************************************)
(* Backend dictation events                                                *)
(***************************************************************************)
\* C13: a consumer of the recording events plays the start cue at most once per
\* false-to-true transition: a recording(true) event delivered to the live
\* listener when the previous one already set isRecording plays no cue.
C13_StartCueOncePerTransition ==
    [][ \A g \in Tokens :
          ( /\ g = activeToken
            /\ DeliveredTo(g, "backend-dictation-recording")
            /\ inflight.payload = "true"
            /\ ui.isRecording ) => sounds' = sounds ]_vars

(***************************************************************************)
(* The cycle as a whole                                                    *)
(***************************************************************************)
\* the first session has run exactly one cycle, started once, and it has ended
\* with its Result published and no error
HappyCycleDone ==
    /\ issued = 1
    /\ sounds.start = 1
    /\ bcast["Result"] = 1
    /\ bcast["Error"] = 0
    /\ TotalToasts = 0
    /\ Phase(1) = "Idle"

\* C14: tap-mode happy path. When a cycle started by one press and stopped by a
\* second has ended with Result(T) published, RecordingChanged(true) and
\* ProcessingChanged(false) were each published exactly once, T is what was
\* pasted, and the clipboard holds again the content P it held before the paste.
C14_TapHappyPath ==
    HappyCycleDone =>
        /\ bcast["RecordingChanged(true)"] = 1
        /\ bcast["ProcessingChanged(false)"] = 1
        /\ pasted = transcript
        /\ transcript \in Dictated
        /\ clipboard = observed

\* nothing of session g is left to run once the paste in flight has resolved
QuietAfterPaste(g) ==
    /\ mgr[g].st = "idle"
    /\ \A t \in timers : t.tok # g

ListedEdges ==
    {<<"Idle", "Starting">>, <<"Starting", "Recording">>, <<"Recording", "Transcribing">>,
     <<"Transcribing", "Pasting">>, <<"Transcribing", "Error">>, <<"Pasting", "Idle">>,
     <<"Error", "Idle">>}

\* the further edges the handlers and the manager take: a capture that fails or
\* is released at teardown (Starting or Recording to Idle), a transcription
\* resolving under a replaced token (Transcribing to Idle), a start event
\* handled while Pasting or in Error, and, when that new capture ends while the
\* paste of the cycle before is still pending, the fall back to Pasting
FurtherEdges ==
    {<<"Starting", "Idle">>, <<"Recording", "Idle">>, <<"Transcribing", "Idle">>,
     <<"Pasting", "Starting">>, <<"Error", "Starting">>,
     <<"Starting", "Pasting">>, <<"Recording", "Pasting">>, <<"Error", "Pasting">>}

C17_EventuallyIdle ==
    (Phase(1) \in {"Starting", "Transcribing", "Pasting", "Error"})
        ~> (Phase(1) \in {"Idle", "Recording"})

\* after a capture failure was reported a later press has started a new capture
C17_RestartedAfterCaptureFailure ==
    /\ toasts["CaptureFailed"] = 1
    /\ sounds.start = 2
    /\ mgr[1].st = "starting"
    /\ mgr[1].captures = 1

\* C18: ProcessingChanged events are paired in each cycle of the live session:
\* ProcessingChanged(true) is published, and isProcessing set, exactly when the
\* session enters Transcribing; ProcessingChanged(false) is published, and
\* isProcessing cleared, exactly when it leaves Transcribing, to Error as well
\* as to Pasting.
C18_ProcessingChangedPaired ==
    [][ LET enters(g) == Phase(g) # "Transcribing" /\ Phase(g)' = "Transcribing"
            leaves(g) == Phase(g) = "Transcribing" /\ Phase(g)' # "Transcribing"
            on == "ProcessingChanged(true)"
            off == "ProcessingChanged(false)"
        IN  /\ \A g \in Tokens : (g = activeToken /\ enters(g)) =>
                  /\ bcast'[on] = bcast[on] + 1
                  /\ bcast'[off] = bcast[off]
                  /\ ui'.isProcessing
            /\ \A g \in Tokens : (g = activeToken /\ leaves(g)) =>
                  /\ bcast'[off] = bcast[off] + 1
                  /\ bcast'[on] = bcast[on]
                  /\ ~ui'.isProcessing
                  /\ Phase(g)' \in {"Pasting", "Error"}
            /\ bcast'[on] # bcast[on] => \E g \in Tokens : g = activeToken /\ enters(g)
            /\ bcast'[off] # bcast[off] => \E g \in Tokens : g = activeToken /\ leaves(g) ]_vars

\* the transcription has failed and the error is not yet reported: one
\* ProcessingChanged(true) and one ProcessingChanged(false) were published
C18_PairedOnFailurePath ==
    /\ issued = 1
    /\ mgr[1].st = "error"
    /\ bcast["ProcessingChanged(true)"] = 1
    /\ bcast["ProcessingChanged(false)"] = 1
    /\ ~ui.isProcessing

(***************************************************************************)
(* The steps of paste_text                                                 *)
(***************************************************************************)
\* this step is the clipboard write of the paste in flight, and the transcript
\* did not reach the clipboard
WriteFailed ==
    /\ pastes["safePaste"].pc = "write"
    /\ pastes'["safePaste"].pc # "write"
    /\ clipboard' # pastes["safePaste"].text

\* C19 as stated: when the clipboard write fails the paste is not aborted: the
\* keystroke is still synthesised and ClipboardWriteFailed is reported.
C19_WriteFailureStillPastes ==
    (pastes["safePaste"].pc = "done" /\ pastes["safePaste"].result = "ClipboardWriteFailed")
        => pastes["safePaste"].synth

\* C19 as paste_text has it: when the clipboard write fails the command returns
\* ClipboardWriteFailed at once: no keystroke is synthesised and the clipboard
\* is left as it was.
C19_WriteFailureAborts ==
    [][ WriteFailed =>
          /\ pastes'["safePaste"].pc = "done"
          /\ pastes'["safePaste"].result = "ClipboardWriteFailed"
          /\ ~pastes'["safePaste"].synth
          /\ UNCHANGED <<clipboard, synthCtxs, pasted>> ]_vars

\* the write of a transcript failed over a text clipboard and the command ended
C19_WriteFailedOverText ==
    /\ pastes["safePaste"].pc = "done"
    /\ pastes["safePaste"].result = "ClipboardWriteFailed"
    /\ pastes["safePaste"].prev = "previous"
    /\ pastes["safePaste"].text = "hello world"
    /\ clipboard = "previous"
    /\ synthCtxs = {}

\* the order of the steps of one paste_text command
StepEdges ==
    {<<"free", "perm">>, <<"perm", "read">>, <<"read", "write">>, <<"write", "synth">>,
     <<"synth", "restore">>, <<"restore", "done">>, <<"done", "free">>}

\* the edges by which a failed step ends the command
ShortCircuits ==
    {<<"perm", "done">>, <<"write", "done">>, <<"synth", "done">>}

\* the steps run in order, a failed permission query, write or synthesis ends the
\* command with its error and with nothing of the later steps done, and Ok is
\* returned only after the keystroke went out
StepsInOrder ==
    LET p == pastes["safePaste"]
        q == pastes'["safePaste"]
    IN  /\ q.pc # p.pc => <<p.pc, q.pc>> \in StepEdges \cup ShortCircuits
        /\ <<p.pc, q.pc>> = <<"perm", "done">> =>
              q.result = "PermissionDenied" /\ ~q.synth /\ q.prev = NoSnapshot
        /\ <<p.pc, q.pc>> = <<"write", "done">> =>
              q.result = "ClipboardWriteFailed" /\ ~q.synth /\ clipboard' = clipboard
        /\ <<p.pc, q.pc>> = <<"synth", "done">> =>
              q.result = "SynthesisFailed" /\ clipboard' = clipboard /\ pasted' = pasted
        /\ <<p.pc, q.pc>> = <<"synth", "restore">> => pasted' = p.text
        /\ q.result = "Ok" => q.synth /\ p.pc = "restore"
        /\ synthCtxs' # synthCtxs => p.pc = "synth"
        /\ clipboard' # clipboard => p.pc \in {"perm", "write", "restore"}

\* this step is the snapshot of the paste in flight and nothing could be read
SnapshotFailed ==
    /\ pastes["safePaste"].pc = "read"
    /\ pastes'["safePaste"].pc # "read"
    /\ pastes'["safePaste"].prev = NoSnapshot

\* C20 as stated: the steps run strictly in order and a failure of any step,
\* the snapshot included, keeps every later step from running; Ok is returned
\* only if the synthesis succeeded.
C20_AnyFailureShortCircuits ==
    [][ /\ StepsInOrder
        /\ SnapshotFailed => pastes'["safePaste"].pc = "done" ]_vars

\* C20 as paste_text has it: the steps run strictly in order; a failure of the
\* permission query, of the clipboard write or of the synthesis keeps every
\* later step from running; a snapshot that cannot be read is tolerated and the
\* paste goes on with no snapshot; Ok is returned only if the synthesis succeeded.
C20_StepsShortCircuit ==
    [][ /\ StepsInOrder
        /\ SnapshotFailed => pastes'["safePaste"].pc = "write" ]_vars

\* a paste over an image went through every step with no snapshot and returned Ok
C20_OkWithoutSnapshot ==
    /\ pastes["safePaste"].pc = "done"
    /\ pastes["safePaste"].result = "Ok"
    /\ pastes["safePaste"].prev = NoSnapshot
    /\ pastes["safePaste"].synth
    /\ observed = ImageContent
    /\ pasted = pastes["safePaste"].text

(***************************************************************************)
(* Subscriptions and the overlay                                           *)
(***************************************************************************)
\* the listeners of effect run g of the hook were asked to be released
HookTornDown(g) == g \in wantUnlisten

\* run i of the overlay effect was started and its cleanup has run
OverlayTornDown(i) == overlayEffect[i].pc # "none" /\ overlayMounted # i

\* run i of the overlay effect holds a live subscription
OverlaySubscribed(i) ==
    overlayEffect[i].show = "registered" \/ overlayEffect[i].hide = "registered"

\* the subscriptions of the hook are released after its teardown, also when the
\* teardown ran before the registration resolved
HookSubscriptionsReleased ==
    \A g \in Tokens : [](HookTornDown(g) => <>[](reg[g] = "released"))

\* C21: every subscription acquired at mount, by the hook or by the overlay, is
\* eventually released after teardown, also when the teardown ran before the
\* asynchronous registration resolved.
C21_SubscriptionsReleased ==
    /\ HookSubscriptionsReleased
    /\ \A i \in OverlayRuns : [](OverlayTornDown(i) => <>[]~OverlaySubscribed(i))

(***************************************************************************)
(* The clipboard restore and the user                                      *)
(***************************************************************************)
\* the restore step of the paste in slot s
RestoreStep(s) == pastes[s].pc = "restore" /\ pastes'[s].pc = "done"

\* C22: the restore at the end of paste does not race the user: when the
\* clipboard no longer holds what the paste wrote, because it was changed between
\* the write and the restore, the restore leaves that newer content in place.
C22_RestoreKeepsNewerContent ==
    [][ \A s \in Slots :
          (RestoreStep(s) /\ clipboard # pastes[s].text) => clipboard' = clipboard ]_vars

(***************************************************************************)
(* Hotkey events and the listeners of earlier mounts                       *)
(***************************************************************************)
\* C23: each hotkey event is acted on at most once, also while the listener of
\* an earlier mount is still registered next to the current one: all the
\* listeners that hear one toggle / start / stop event play at most one cue
\* between them (every start or stop request is made together with its cue).
C23_HotkeyActedOnOnce ==
    inflight.kind \in HotkeyKinds => inflight.cues <= 1

\* an event was heard by two listeners, one of them played its cue
C23_TwoListenersOneCue ==
    /\ inflight.kind \in HotkeyKinds
    /\ inflight.targets = {}
    /\ Cardinality(inflight.heard) = 2
    /\ inflight.cues = 1

\* C24: the overlay is idempotent under redundant delivery: a show-overlay(phase)
\* handled right after the same show-overlay(phase) leaves the displayed phase and
\* the visibility as the first one set them.
C24_ShowOverlayIdempotent ==
    [][ ( /\ overlayLast' # overlayLast
          /\ overlayLast'.kind = "show-overlay"
          /\ overlayLast'.times > 1 ) => overlay' = overlay ]_vars

\* the overlay shows Recording after two show-overlay("recording") in a row
C24_ShownTwice ==
    /\ overlayLast.kind = "show-overlay"
    /\ overlayLast.payload = "recording"
    /\ overlayLast.times = 2
    /\ overlay = [state |-> "recording", visible |-> TRUE]

(***************************************************************************)
(* Registration of the global hotkey                                       *)
(***************************************************************************)
\* instance i has started a registration attempt that is pending or has succeeded
AttemptLive(i) == hotkeyHook[i].pc \in {"delay", "retry", "calling", "fallback", "registered"}

\* this step is a call of updateHotkey by instance i
CallsUpdateHotkey(i) ==
    \/ hotkeyHook[i].pc = "delay" /\ hotkeyHook'[i].pc = "calling"
    \/ hotkeyHook[i].pc = "calling" /\ hotkeyHook'[i].pc = "fallback"

\* C25: the global hotkey is registered once per webview: while the attempt of
\* one useHotkey instance is pending (its retry loop included) or has succeeded,
\* no other instance calls updateHotkey.
C25_RegisteredOncePerWebview ==
    [][ \A i \in HotkeyHooks :
          CallsUpdateHotkey(i) => \A j \in HotkeyHooks \ {i} : ~AttemptLive(j) ]_vars

\* this step is updateHotkey resolving with success false for instance i
ResolvesUnsuccessful(i) ==
    hotkeyHook[i].pc = "calling" /\ hotkeyHook'[i].pc \in {"failed", "fallback"}

\* this step ends the attempt of instance i in failure
AttemptFails(i) ==
    hotkeyHook[i].pc \in {"calling", "fallback"} /\ hotkeyHook'[i].pc = "failed"

\* this step is the effect of instance i running for the first time
Mounts(i) == hotkeyHook[i].pc = "none" /\ hotkeyHook'[i].pc # "none"

\* C28 as stated: whenever updateHotkey resolves with success false, the flag
\* hotkeyRegistered is false afterwards.
C28_UnsuccessfulResetsFlag ==
    [][ \A i \in HotkeyHooks : ResolvesUnsuccessful(i) => ~hotkeyRegistered' ]_vars

\* C28: a failed registration never blocks later attempts: whenever an attempt
\* ends in failure (updateHotkey resolved with success false and, in the build
\* with the F1 fallback, the fallback was not tried or failed as well) the flag
\* is false afterwards, and an instance that mounts while the flag is false
\* starts an attempt.
C28_FailedAttemptFreesFlag ==
    [][ \A i \in HotkeyHooks :
          /\ AttemptFails(i) => ~hotkeyRegistered'
          /\ (Mounts(i) /\ ~hotkeyRegistered) => hotkeyHook'[i].pc = "delay" ]_vars

\* the first instance failed without ever retrying, and the second one, mounted
\* after that failure, has called updateHotkey
C28_SecondAttemptAfterFailure ==
    /\ hotkeyHook[1].pc = "failed"
    /\ hotkeyHook[1].hasRegistered
    /\ hotkeyHook[2].pc = "calling"

(***************************************************************************)
(* The deferred paste and the torn-down session                            *)
(***************************************************************************)
\* this step is the 500 ms timer t firing
Fires(t) == t \in timers /\ t \notin timers'

\* C26: the paste after a successful transcription is deferred and the token is
\* checked again when the timer fires: if the generation was replaced during the
\* delay, no safePaste is started and no saveTranscription is made.
C26_DeferredPasteRechecksToken ==
    [][ \A t \in timers :
          (Fires(t) /\ ~isActiveToken(t.tok)) => (pastes' = pastes /\ saved' = saved) ]_vars

\* the session was remounted during the delay of its only transcription: the
\* timer has fired, nothing was pasted and nothing was saved
C26_AbandonedTranscriptDropped ==
    /\ activeToken = 2
    /\ sounds.complete = 1
    /\ timers = {}
    /\ pastes["safePaste"].pc = "free"
    /\ pasted = NothingPasted
    /\ saved = 0

\* C27: after the hook was torn down and before it is mounted again, a hotkey
\* event that still reaches one of its listeners, or a paste timer that still
\* fires, starts no recording, requests no paste and changes no state.
C27_TornDownIsInert ==
    [][ ( /\ ~mounted
          /\ \/ \E g \in Tokens, kind \in HotkeyKinds : DeliveredTo(g, kind)
             \/ \E t \in timers : Fires(t) )
        => UNCHANGED <<mgr, ui, transcript, sounds, toasts, windowShown, saved, pastes>> ]_vars

(***************************************************************************)
(* Clipboard history                                                       *)
(***************************************************************************)
\* no two items of the list have the same id
Unique(items) ==
    \A j, k \in 1..Len(items) : j # k => items[j] # items[k]

\* this step is the main window's listener handling the update in flight
MainHandles == clipUpdate.main /\ ~clipUpdate'.main

\* this step is the listener l of ClipboardSettings handling the update in flight
SettingsHandles(l) ==
    /\ l \in clipUpdate.targets
    /\ clipUpdate'.targets = clipUpdate.targets \ {l}
    /\ l \in clipListeners
    /\ settings.mounted

\* the update in flight is one to be ignored: its id is stored already, its id or
\* content is empty, or the clipboard history is disabled
ToBeIgnored ==
    \/ some(lsHistory, clipUpdate.id)
    \/ clipUpdate.id = ""
    \/ clipUpdate.content = ""
    \/ ~enabledOf(lsEnabled)

\* C29: the stored history never holds two items with the same id, and an
\* update whose id is already stored, whose id or content is empty, or that
\* arrives while the clipboard history is disabled leaves it unchanged.
C29_HistoryUniqueAndGuarded ==
    /\ [](Unique(lsHistory) /\ Unique(settings.history))
    /\ [][ ( /\ MainHandles \/ \E l \in clipListeners : SettingsHandles(l)
             /\ ToBeIgnored ) => lsHistory' = lsHistory ]_vars

\* C30: the limit used to trim the history is a positive integer, so an update
\* that is accepted keeps its item at the head of the stored history and the
\* history is no longer than the limit.
C30_PositiveLimitKeepsNewest ==
    [][ /\ ( MainHandles /\ lsHistory' # lsHistory )
             => ( /\ lsHistory' # <<>>
                  /\ Head(lsHistory') = clipUpdate.id
                  /\ Len(lsHistory') <= limitOf(lsMaxItems) )
        /\ \A l \in clipListeners :
             ( /\ SettingsHandles(l)
               /\ l.enabled /\ clipUpdate.id # "" /\ clipUpdate.content # ""
               /\ ~some(settings.history, clipUpdate.id) )
             => ( /\ l.maxItems > 0
                  /\ lsHistory' # <<>>
                  /\ Head(lsHistory') = clipUpdate.id
                  /\ Len(lsHistory') <= l.maxItems ) ]_vars

====
